---- MODULE Spec2Model ----
(***************************************************************************)
(* Tutoring-session lifecycle of the Quality-Education backend:            *)
(* services/tutoringSessionService.js (createSession, updateSession,       *)
(* deleteSession, joinSession, leaveSession) over the TutoringSession      *)
(* model (addParticipant, removeParticipant, updateParticipantStatus, the  *)
(* pre('save') duration hook) and the Google Calendar adapter, with the     *)
(* controller's createTutoringSession and the List requests (getAllSessions *)
(* of the service, getAllTutoringSessions of the controller).               *)
(*                                                                         *)
(* Every `await` of a storage or calendar call is a suspension point, so   *)
(* each service function is a sequence of atomic steps: one step per       *)
(* storage read, storage write or calendar call.  Code that runs between   *)
(* two awaits only touches the request's own copy of the document and is   *)
(* folded into the step of the storage call that follows it.               *)
(*                                                                         *)
(* Storage writes follow what the called operations send to the store:     *)
(*   - document.save() sends the changes made to the loaded copy:          *)
(*     participants.push(..) is an append to the stored array,             *)
(*     participants.splice(..) replaces the stored array and is guarded by *)
(*     the document version (__v) read at load time, a changed number is   *)
(*     written as the value computed from the loaded copy;                 *)
(*     before the write save() validates the document, then runs the       *)
(*     pre('save') hook;                                                   *)
(*   - findByIdAndUpdate writes the given fields, validates those fields   *)
(*     (runValidators) and runs no save hook;                              *)
(*   - findByIdAndDelete removes the document.                             *)
(* One session id is modelled (db holds that document or NoSession).       *)
(***************************************************************************)
EXTENDS Integers, Sequences, FiniteSets, TLC

VARIABLES
  db,          \* the stored TutoringSession document of the modelled id
  req,         \* per request slot: the request in flight and its local state
  calendarOn,  \* googleCalendar.service: whether `calendar` was configured
  left,        \* number of requests that may still start
  last,        \* the response sent last
  recording,   \* history: whether hist is kept
  base,        \* history: the stored document before the first request
  hist,        \* history: the requests answered so far, in order
  asked,       \* history: the request received last, with its input
  now,         \* the clock read by `new Date()`
  listing      \* the response sent last to a List request, with its query

vars ==
  <<db, req, calendarOn, left, last, recording, base, hist, asked, now, listing>>

----------------------------------------------------------------------------
\* Bounds of the model

MaxOps == 2          \* requests started in one behaviour of Spec
MaxJoinLeaveOps == 3 \* requests started in one behaviour of SpecJoinLeave
MaxSeqOps == 4       \* requests started in one behaviour of SpecSeq
MaxCap == 2          \* largest maxParticipants / currentEnrolled in a payload
MaxTime == 1         \* last instant the clock reaches
MaxLen == 3          \* longest page / limit string of a List query
MaxOthers == 2       \* most sessions stored besides the modelled one

\* capacity.maxParticipants: max: [100, ...]
MaxParticipantsLimit == 100

\* requests that may be in flight at once
Slots == {1, 2}

\* Users and their roles (UserModel.role)
Users == {"t1", "t2", "a1", "u1", "u2"}
Students == {"u1", "u2"}
role(u) ==
  CASE u \in {"t1", "t2"} -> "tutor" [] u = "a1" -> "admin" [] OTHER -> "user"

ParticipantStatus == {"enrolled", "attended", "dropped", "cancelled"}

\* "HH:MM" strings are <<hours, minutes>> pairs
PayloadTimes == {<<9, 0>>, <<10, 0>>, <<24, 0>>}

Max(a, b) == IF a >= b THEN a ELSE b

\* enum of the schema's status
Statuses == {"scheduled", "in-progress", "completed", "cancelled"}

----------------------------------------------------------------------------
\* Documents

NoSession ==
  [present |-> FALSE, tutor |-> "none", participants |-> <<>>,
   currentEnrolled |-> 0, maxParticipants |-> 0,
   date |-> 0, startTime |-> <<0, 0>>, endTime |-> <<0, 0>>,
   status |-> "none", googleEventId |-> 0, v |-> 0]

NoPayload ==
  [kind |-> "none", tutor |-> "none", maxParticipants |-> 0, currentEnrolled |-> 0,
   date |-> 0, startTime |-> <<0, 0>>, endTime |-> <<0, 0>>,
   status |-> "undefined", participants |-> <<>>, googleEventId |-> 0]

Idle ==
  [op |-> "none", pc |-> "idle", user |-> "none", doc |-> NoSession,
   payload |-> NoPayload, ret |-> 0, cal |-> "none"]

NoResponse == [op |-> "none", status |-> "none", ret |-> 0, cal |-> "none"]

\* asked before the first request; `on` tells whether asked is kept
NoRequest(on) == [on |-> on, op |-> "none", user |-> "none", payload |-> NoPayload]

\* timeRegex /^([01]?[0-9]|2[0-3]):[0-5][0-9]$/
timeRegex(t) == t[1] \in 0..23 /\ t[2] \in 0..59

\* "HH:MM".split(":").map(Number) -> hours * 60 + minutes
totalMinutes(t) == t[1] * 60 + t[2]

\* schedule.date validator: return value > new Date()
dateValidator(v) == v > now

\* document.save() validates the loaded paths before the save hooks run: of
\* the modelled fields schedule.date has a validator that can fail
saveValidators(d) == dateValidator(d.date)

\* pre('save') hook: duration = endTotalMinutes - startTotalMinutes,
\* throws "End time must be after start time" when duration <= 0
preSaveDuration(d) == totalMinutes(d.endTime) - totalMinutes(d.startTime)
preSaveOk(d) == preSaveDuration(d) > 0

\* isFull with > for >=
isFullStrict(d) == d.currentEnrolled > d.maxParticipants

\* virtual isFull
isFull(d) == d.currentEnrolled >= d.maxParticipants

\* participants.some(p => p.userId.toString() === userId.toString())
isAlreadyEnrolled(d, u) ==
  \E i \in 1..Len(d.participants) : d.participants[i].userId = u

\* participants.findIndex(..): the first index holding userId; 0 for JS -1
participantIndex(d, u) ==
  IF isAlreadyEnrolled(d, u)
  THEN CHOOSE i \in 1..Len(d.participants) :
         /\ d.participants[i].userId = u
         /\ \A j \in 1..(i - 1) : d.participants[j].userId # u
  ELSE 0

\* Array.prototype.splice(i, 1)
splice(s, i) == SubSeq(s, 1, i - 1) \o SubSeq(s, i + 1, Len(s))

Thrown(stored, e) == [err |-> e, stored |-> stored, ret |-> 0]

\* addParticipant refusing a session that is not scheduled
addParticipantScheduledOnly(stored, d, u) ==
  IF isFull(d) THEN Thrown(stored, "Session is at full capacity")
  ELSE IF isAlreadyEnrolled(d, u)
    THEN Thrown(stored, "User is already enrolled in this session")
  ELSE IF d.status # "scheduled" THEN Thrown(stored, "Session is not open")
  ELSE IF ~saveValidators(d) THEN Thrown(stored, "ValidationError")
  ELSE IF ~preSaveOk(d) THEN Thrown(stored, "End time must be after start time")
  ELSE IF ~stored.present THEN Thrown(stored, "DocumentNotFoundError")
  ELSE [err |-> "none",
        stored |-> [stored EXCEPT
                      !.participants = Append(@, [userId |-> u, status |-> "enrolled"]),
                      !.currentEnrolled = d.currentEnrolled + 1,
                      !.v = @ + 1],
        ret |-> d.currentEnrolled + 1]

\* TutoringSession.methods.addParticipant run on the loaded copy d against
\* the stored document: the error thrown ("none" when it returns), the stored
\* document afterwards and the copy's capacity.currentEnrolled
addParticipant(stored, d, u) ==
  IF isFull(d) THEN Thrown(stored, "Session is at full capacity")
  ELSE IF isAlreadyEnrolled(d, u)
    THEN Thrown(stored, "User is already enrolled in this session")
  ELSE IF ~saveValidators(d) THEN Thrown(stored, "ValidationError")
  ELSE IF ~preSaveOk(d) THEN Thrown(stored, "End time must be after start time")
  ELSE IF ~stored.present THEN Thrown(stored, "DocumentNotFoundError")
  ELSE [err |-> "none",
        stored |-> [stored EXCEPT
                      !.participants = Append(@, [userId |-> u, status |-> "enrolled"]),
                      !.currentEnrolled = d.currentEnrolled + 1,
                      !.v = @ + 1],
        ret |-> d.currentEnrolled + 1]

\* TutoringSession.methods.removeParticipant, as addParticipant above
removeParticipant(stored, d, u) ==
  LET i == participantIndex(d, u)
      n == Max(0, d.currentEnrolled - 1)
  IN IF i = 0 THEN Thrown(stored, "User is not enrolled in this session")
     ELSE IF ~saveValidators(d) THEN Thrown(stored, "ValidationError")
     ELSE IF ~preSaveOk(d) THEN Thrown(stored, "End time must be after start time")
     ELSE IF ~stored.present \/ stored.v # d.v THEN Thrown(stored, "VersionError")
     ELSE [err |-> "none",
           stored |-> [stored EXCEPT
                         !.participants = splice(d.participants, i),
                         !.currentEnrolled = IF n # d.currentEnrolled THEN n ELSE @,
                         !.v = @ + 1],
           ret |-> n]

\* TutoringSession.methods.updateParticipantStatus, as addParticipant above
updateParticipantStatus(stored, d, u, st) ==
  LET i == participantIndex(d, u)
  IN IF i = 0 THEN Thrown(stored, "User is not enrolled in this session")
     ELSE IF ~saveValidators(d) THEN Thrown(stored, "ValidationError")
     ELSE IF ~preSaveOk(d) THEN Thrown(stored, "End time must be after start time")
     ELSE IF d.participants[i].status = st
       THEN [err |-> "none", stored |-> stored, ret |-> d.currentEnrolled]
     ELSE IF ~stored.present \/ stored.v # d.v THEN Thrown(stored, "VersionError")
     ELSE [err |-> "none",
           stored |-> [stored EXCEPT !.participants[i].status = st],
           ret |-> d.currentEnrolled]

\* checkOwnershipOrAdmin letting every tutor pass
checkOwnershipOrAdminAnyTutor(d, u) == role(u) \in {"tutor", "admin"}

\* checkOwnershipOrAdmin
checkOwnershipOrAdmin(d, u) == d.tutor = u \/ role(u) = "admin"

----------------------------------------------------------------------------
\* List queries

\* characters of the page and limit strings of a query: a sign, two digits
\* and a letter (no white space, no "0x" prefix)
Chars == {"-", "0", "1", "a"}

\* the strings of at most n characters
Strings(n) == UNION {[1..k -> Chars] : k \in 0..n}

\* a parameter that is not in the query: String(undefined)
Undefined == <<"undefined">>

Digits == <<"0", "1", "2", "3", "4", "5", "6", "7", "8", "9">>
isDigit(c) == \E i \in 1..Len(Digits) : Digits[i] = c
digitValue(c) == (CHOOSE i \in 1..Len(Digits) : Digits[i] = c) - 1

\* the number written by the longest prefix of digits of s, after acc
RECURSIVE digitsPrefix(_, _)
digitsPrefix(s, acc) ==
  IF s = <<>> \/ ~isDigit(Head(s)) THEN acc
  ELSE digitsPrefix(Tail(s), acc * 10 + digitValue(Head(s)))

NaN == [nan |-> TRUE, val |-> 0]

\* parseInt(string): an optional sign, then the longest prefix of digits;
\* NaN when there is no digit
parseInt(s) ==
  LET neg == s # <<>> /\ Head(s) = "-"
      body == IF neg THEN Tail(s) ELSE s
  IN IF body = <<>> \/ ~isDigit(Head(body)) THEN NaN
     ELSE [nan |-> FALSE,
           val |-> IF neg THEN 0 - digitsPrefix(body, 0) ELSE digitsPrefix(body, 0)]

\* n || d: NaN and 0 are falsy
orElse(n, d) == IF n.nan \/ n.val = 0 THEN d ELSE n.val

Min(a, b) == IF a <= b THEN a ELSE b

\* Math.max(1, parseInt(page) || 1)
pageOf(q) == Max(1, orElse(parseInt(q.page), 1))

\* limit without Math.max(1, ..)
limitOfNoFloor(q) == Min(100, orElse(parseInt(q.limit), 10))

\* Math.min(100, Math.max(1, parseInt(limit) || 10))
limitOf(q) == Min(100, Max(1, orElse(parseInt(q.limit), 10)))

\* (page - 1) * limit
skipOf(q) == (pageOf(q) - 1) * limitOf(q)

\* Math.ceil(total / limit)
totalPagesOf(total, limit) == (total + limit - 1) \div limit

NoQuery ==
  [page |-> Undefined, limit |-> Undefined,
   availableSeatsOnly |-> "undefined", includeCompleted |-> "undefined",
   status |-> "undefined", sortBy |-> "undefined", sortOrder |-> "undefined"]

NoListing ==
  [path |-> "none", query |-> NoQuery, page |-> 0, limit |-> 0, skip |-> 0,
   total |-> 0, totalPages |-> 0, found |-> FALSE,
   sort |-> [field |-> "none", order |-> 0], sessions |-> <<>>]

\* validSortFields of the controller
validSortFields ==
  {"schedule.date", "subject", "level", "createdAt", "capacity.maxParticipants",
   "capacity.currentEnrolled", "-schedule.date"}

\* sortObj of the controller: { [sortField]: order }, sortBy = "schedule.date"
\* and sortOrder = "asc" when the parameter is absent
sortObj(q) ==
  LET sortBy == IF q.sortBy = "undefined" THEN "schedule.date" ELSE q.sortBy
      sortOrder == IF q.sortOrder = "undefined" THEN "asc" ELSE q.sortOrder
  IN [field |-> IF sortBy \in validSortFields THEN sortBy ELSE "schedule.date",
      order |-> IF sortOrder = "desc" \/ sortOrder = "-1" THEN -1 ELSE 1]

\* the sort of a List request: sortObj in the controller,
\* .sort({ "schedule.date": 1 }) in the service
sortOf(path, q) ==
  IF path = "controller" THEN sortObj(q)
  ELSE [field |-> "schedule.date", order |-> 1]

\* utils.buildFilter(query) applied to d: {"schedule.date": {$gte: now}} and
\* the query's status when given; the query's tutor, subject, level and grade
\* are not given
buildFilter(q, d) ==
  /\ d.present
  /\ d.date >= now
  /\ q.status # "undefined" => d.status = q.status

\* String(includeCompleted).toLowerCase()
toLowerCase(s) ==
  CASE s = "TRUE" -> "true"
    [] s = "ASC" -> "asc"
    [] s = "DESC" -> "desc"
    [] OTHER -> s

\* the filter of the controller's getAllTutoringSessions applied to d: upcoming
\* scheduled sessions when includeCompleted is absent or "false", the statuses
\* scheduled, in-progress and completed when it is "true" in any case, else the
\* query's status (default "scheduled") unless "all"; and $expr
\* currentEnrolled < maxParticipants when availableSeatsOnly is "true"
controllerFilter(q, d) ==
  LET status == IF q.status = "undefined" THEN "scheduled" ELSE q.status
  IN /\ d.present
     /\ IF q.includeCompleted \in {"undefined", "false"}
          THEN d.date >= now /\ d.status = "scheduled"
        ELSE IF toLowerCase(q.includeCompleted) = "true"
          THEN d.status \in {"scheduled", "in-progress", "completed"}
        ELSE status # "all" => d.status = status
     /\ q.availableSeatsOnly = "true" => d.currentEnrolled < d.maxParticipants

\* countDocuments(filter) and find(filter).sort(..).skip(skip).limit(limit):
\* the modelled session, found or not, sorts before the n other sessions found
listed(path, q, found, n) ==
  LET total == n + (IF found THEN 1 ELSE 0)
  IN [path |-> path, query |-> q, page |-> pageOf(q), limit |-> limitOf(q),
      skip |-> skipOf(q), total |-> total,
      totalPages |-> totalPagesOf(total, limitOf(q)), found |-> found,
      sort |-> sortOf(path, q),
      sessions |-> IF found /\ skipOf(q) = 0 THEN <<db>> ELSE <<>>]

\* the List request is answered
Listed(l) ==
  /\ left > 0
  /\ left' = left - 1
  /\ listing' = l
  /\ UNCHANGED <<db, req, calendarOn, last, recording, base, hist, asked, now>>

\* tutoringSessionService getAllSessions(query)
getAllSessions(q, n) == Listed(listed("service", q, buildFilter(q, db), n))

\* tutoringSessionController getAllTutoringSessions
getAllTutoringSessions(q, n) ==
  Listed(listed("controller", q, controllerFilter(q, db), n))

----------------------------------------------------------------------------
\* Request steps

Start(r) == req[r].pc = "idle" /\ left > 0

History == UNCHANGED <<calendarOn, recording, base, now, listing>>

\* the request o of user u with payload p is received
Received(o, u, p) ==
  asked' = IF asked.on THEN [on |-> TRUE, op |-> o, user |-> u, payload |-> p]
                       ELSE asked

\* the request of slot r goes on with its next step
Begin(r, o, u, d, p, pc) ==
  /\ req' = [req EXCEPT ![r] = [Idle EXCEPT !.op = o, !.pc = pc, !.user = u,
                                           !.doc = d, !.payload = p]]
  /\ left' = left - 1
  /\ Received(o, u, p)
  /\ UNCHANGED <<last, hist>>

\* the answered request as kept in hist: the document it loaded (pre) and the
\* stored document when it is answered (post)
Answered(o, u, e, n, pre) ==
  IF recording
  THEN Append(hist, [op |-> o, user |-> u, status |-> e, ret |-> n,
                     pre |-> pre, post |-> db'])
  ELSE hist

\* the request ends in its first step
Fail(r, o, u, p, e) ==
  /\ req' = req
  /\ left' = left - 1
  /\ last' = [op |-> o, status |-> e, ret |-> 0, cal |-> "none"]
  /\ hist' = Answered(o, u, e, 0, db)
  /\ Received(o, u, p)

\* the request of slot r ends: the response is sent and the slot is free
Finish(r, e, n, c) ==
  /\ req' = [req EXCEPT ![r] = Idle]
  /\ left' = left
  /\ last' = [op |-> req[r].op, status |-> e, ret |-> n, cal |-> c]
  /\ hist' = Answered(req[r].op, req[r].user, e, n,
                      IF req[r].doc.present THEN req[r].doc ELSE db)
  /\ asked' = asked

Goto(r, pc) ==
  /\ req' = [req EXCEPT ![r].pc = pc]
  /\ UNCHANGED <<left, last, hist, asked>>

\* ids of a request: the stored session's, the users', and a string that is
\* no ObjectId
ObjectIds == {"s1"} \cup Users

Ids == ObjectIds \cup {"xyz"}

\* mongoose.Types.ObjectId.isValid(id)
isValid(id) == id \in ObjectIds

\* the request's id as asked keeps it
InvalidId == [NoPayload EXCEPT !.kind = "invalidId"]

\* the id checked after the session was looked up
validateObjectId_afterFindById(r, o, u) ==
  /\ Start(r)
  /\ db' = db
  /\ Fail(r, o, u, InvalidId, IF db.present THEN "BadRequestError" ELSE "NotFoundError")
  /\ History

\* getSessionById / updateSession / deleteSession / joinSession / leaveSession
\* / getTutorSessions called with an id that is not a valid ObjectId:
\* validateObjectId, their first statement, throws BadRequestError
validateObjectId_throws(r, o, u) ==
  /\ Start(r)
  /\ db' = db
  /\ Fail(r, o, u, InvalidId, "BadRequestError")
  /\ History

\* joinSession: validateObjectId, findById, ensureSessionExists
joinSession_findById(r, u) ==
  /\ Start(r)
  /\ db' = db
  /\ IF db.present THEN Begin(r, "join", u, db, NoPayload, "save")
                   ELSE Fail(r, "join", u, NoPayload, "NotFoundError")
  /\ History

\* joinSession calling the calendar whether or not googleEventId is set
joinSession_addParticipantAlwaysSyncs(r) ==
  /\ req[r].op = "join" /\ req[r].pc = "save"
  /\ LET out == addParticipant(db, req[r].doc, req[r].user)
     IN /\ db' = out.stored
        /\ IF out.err # "none" THEN Finish(r, "BadRequestError", 0, "none")
           ELSE /\ req' = [req EXCEPT ![r].pc = "sync", ![r].ret = out.ret]
                /\ UNCHANGED <<left, last, hist, asked>>
  /\ History

\* joinSession: session.addParticipant(user.userId), errors -> BadRequestError
joinSession_addParticipant(r) ==
  /\ req[r].op = "join" /\ req[r].pc = "save"
  /\ LET out == addParticipant(db, req[r].doc, req[r].user)
     IN /\ db' = out.stored
        /\ IF out.err # "none" THEN Finish(r, "BadRequestError", 0, "none")
           ELSE IF req[r].doc.googleEventId # 0
             THEN /\ req' = [req EXCEPT ![r].pc = "sync", ![r].ret = out.ret]
                  /\ UNCHANGED <<left, last, hist, asked>>
           ELSE Finish(r, "ok", out.ret, "none")
  /\ History

\* the calendar adapter as called with a set googleEventId: it returns or throws
CalendarOutcomes == IF calendarOn THEN {"returned", "threw"} ELSE {"returned"}

\* the calendar call without the try/catch: a throw ends the request
attendeeSyncUncaught(r, o) ==
  /\ req[r].op = o /\ req[r].pc = "sync"
  /\ db' = db
  /\ \E c \in CalendarOutcomes :
       IF c = "threw" THEN Finish(r, "Error", 0, c)
                      ELSE Finish(r, "ok", req[r].ret, c)
  /\ History

\* joinSession / leaveSession / updateSession: updateCalendarEvent(..) in
\* try/catch; a throw is logged; the function returns
attendeeSync(r, o) ==
  /\ req[r].op = o /\ req[r].pc = "sync"
  /\ db' = db
  /\ \E c \in CalendarOutcomes : Finish(r, "ok", req[r].ret, c)
  /\ History

joinSession_sync(r) == attendeeSync(r, "join")

\* leaveSession: validateObjectId, findById, ensureSessionExists
leaveSession_findById(r, u) ==
  /\ Start(r)
  /\ db' = db
  /\ IF db.present THEN Begin(r, "leave", u, db, NoPayload, "save")
                   ELSE Fail(r, "leave", u, NoPayload, "NotFoundError")
  /\ History

\* leaveSession: session.removeParticipant(user.userId), errors -> BadRequestError
leaveSession_removeParticipant(r) ==
  /\ req[r].op = "leave" /\ req[r].pc = "save"
  /\ LET out == removeParticipant(db, req[r].doc, req[r].user)
     IN /\ db' = out.stored
        /\ IF out.err # "none" THEN Finish(r, "BadRequestError", 0, "none")
           ELSE IF req[r].doc.googleEventId # 0
             THEN /\ req' = [req EXCEPT ![r].pc = "sync", ![r].ret = out.ret]
                  /\ UNCHANGED <<left, last, hist, asked>>
           ELSE Finish(r, "ok", out.ret, "none")
  /\ History

leaveSession_sync(r) == attendeeSync(r, "leave")

\* validateUpdatePayload: when a schedule time is given both must match
validateUpdatePayload(p) ==
  p.kind = "schedule" => (timeRegex(p.startTime) /\ timeRegex(p.endTime))

\* update validators that skip schedule.date
updateValidatorsNoDate(p) ==
  p.kind = "capacity" =>
    /\ p.maxParticipants >= 1 /\ p.maxParticipants <= MaxParticipantsLimit
    /\ p.currentEnrolled >= 0

\* update validators (runValidators: true) of the fields in the update
updateValidators(p) ==
  /\ p.kind = "capacity" =>
       /\ p.maxParticipants >= 1 /\ p.maxParticipants <= MaxParticipantsLimit
       /\ p.currentEnrolled >= 0
  /\ p.kind = "date" => dateValidator(p.date)
  /\ p.kind = "status" => p.status \in Statuses

\* every key of the payload written by findByIdAndUpdate
applyUpdateEveryKey(d, p) ==
  CASE p.kind = "capacity" ->
         [d EXCEPT !.maxParticipants = p.maxParticipants,
                   !.currentEnrolled = p.currentEnrolled]
    [] p.kind = "schedule" ->
         [d EXCEPT !.startTime = p.startTime, !.endTime = p.endTime]
    [] p.kind = "date" -> [d EXCEPT !.date = p.date]
    [] p.kind = "status" ->
         [d EXCEPT !.status = p.status,
                   !.tutor = IF p.tutor # "none" THEN p.tutor ELSE @,
                   !.participants = IF p.participants # <<>> THEN p.participants ELSE @,
                   !.googleEventId = IF p.googleEventId # 0 THEN p.googleEventId ELSE @]
    [] OTHER -> d

\* the update with the status written only along scheduled -> in-progress ->
\* completed and scheduled / in-progress -> cancelled
applyUpdateGuarded(d, p) ==
  CASE p.kind = "capacity" ->
         [d EXCEPT !.maxParticipants = p.maxParticipants,
                   !.currentEnrolled = p.currentEnrolled]
    [] p.kind = "schedule" ->
         [d EXCEPT !.startTime = p.startTime, !.endTime = p.endTime]
    [] p.kind = "date" -> [d EXCEPT !.date = p.date]
    [] p.kind = "status" ->
         IF <<d.status, p.status>> \in
              {<<"scheduled", "in-progress">>, <<"in-progress", "completed">>,
               <<"scheduled", "cancelled">>, <<"in-progress", "cancelled">>}
         THEN [d EXCEPT !.status = p.status]
         ELSE d
    [] OTHER -> d

\* the allowed fields of the payload as written by findByIdAndUpdate: the
\* payload's tutor, participants and googleEventId are not copied to `data`
applyUpdate(d, p) ==
  CASE p.kind = "capacity" ->
         [d EXCEPT !.maxParticipants = p.maxParticipants,
                   !.currentEnrolled = p.currentEnrolled]
    [] p.kind = "schedule" ->
         [d EXCEPT !.startTime = p.startTime, !.endTime = p.endTime]
    [] p.kind = "date" -> [d EXCEPT !.date = p.date]
    [] p.kind = "status" -> [d EXCEPT !.status = p.status]
    [] OTHER -> d

\* a payload with a status that also names tutor, participants and
\* googleEventId when `named`
statusPayload(st, named) ==
  IF named
  THEN [NoPayload EXCEPT !.kind = "status", !.status = st, !.tutor = "t2",
                         !.participants = <<[userId |-> "u2", status |-> "enrolled"]>>,
                         !.googleEventId = 2]
  ELSE [NoPayload EXCEPT !.kind = "status", !.status = st]

UpdatePayloads ==
  {[NoPayload EXCEPT !.kind = "capacity", !.maxParticipants = m, !.currentEnrolled = c] :
     m \in 0..MaxCap, c \in 0..MaxCap}
  \cup
  {[NoPayload EXCEPT !.kind = "schedule", !.startTime = s, !.endTime = e] :
     s \in PayloadTimes, e \in PayloadTimes}

\* updateSession: validateObjectId, validateUpdatePayload, findById,
\* ensureSessionExists, checkOwnershipOrAdmin
updateSession_findById(r, u, p) ==
  /\ Start(r)
  /\ db' = db
  /\ IF ~validateUpdatePayload(p) THEN Fail(r, "update", u, p, "BadRequestError")
     ELSE IF ~db.present THEN Fail(r, "update", u, p, "NotFoundError")
     ELSE IF ~checkOwnershipOrAdmin(db, u) THEN Fail(r, "update", u, p, "UnauthorizedError")
     ELSE Begin(r, "update", u, NoSession, p, "write")
  /\ History

\* updateSession: findByIdAndUpdate(id, data, {new: true, runValidators: true});
\* `updated` is null when the document is gone and updated.googleEventId throws
updateSession_findByIdAndUpdate(r) ==
  /\ req[r].op = "update" /\ req[r].pc = "write"
  /\ IF ~updateValidators(req[r].payload)
       THEN /\ db' = db
            /\ Finish(r, "ValidationError", 0, "none")
     ELSE IF ~db.present
       THEN /\ db' = db
            /\ Finish(r, "TypeError", 0, "none")
     ELSE /\ db' = applyUpdate(db, req[r].payload)
          /\ IF db.googleEventId # 0
               THEN Goto(r, "sync")
               ELSE Finish(r, "ok", 0, "none")
  /\ History

\* updateSession: updateCalendarEvent(updated.googleEventId, updated)
updateSession_sync(r) == attendeeSync(r, "update")

\* of the copy loaded by deleteSession only session.googleEventId is read
googleEventIdOf(d) ==
  [NoSession EXCEPT !.present = TRUE, !.googleEventId = d.googleEventId]

\* deleteSession: validateObjectId, findById, ensureSessionExists,
\* checkOwnershipOrAdmin
deleteSession_findById(r, u) ==
  /\ Start(r)
  /\ db' = db
  /\ IF ~db.present THEN Fail(r, "delete", u, NoPayload, "NotFoundError")
     ELSE IF ~checkOwnershipOrAdmin(db, u) THEN Fail(r, "delete", u, NoPayload, "UnauthorizedError")
     ELSE Begin(r, "delete", u, googleEventIdOf(db), NoPayload,
                IF db.googleEventId # 0 THEN "sync" ELSE "remove")
  /\ History

\* deleteCalendarEvent: calendar.events.delete; throws when `calendar` is null
DeleteOutcomes == IF calendarOn THEN {"returned", "threw"} ELSE {"threw"}

\* deleteSession without the try/catch: a throw of deleteCalendarEvent ends the
\* request
deleteSession_syncUncaught(r) ==
  /\ req[r].op = "delete" /\ req[r].pc = "sync"
  /\ db' = db
  /\ \E c \in DeleteOutcomes :
       IF c = "threw"
       THEN Finish(r, "Error", 0, c)
       ELSE /\ req' = [req EXCEPT ![r].pc = "remove", ![r].cal = c]
            /\ UNCHANGED <<left, last, hist, asked>>
  /\ History

\* deleteSession: try { await deleteCalendarEvent(..) } catch { log }
deleteSession_sync(r) ==
  /\ req[r].op = "delete" /\ req[r].pc = "sync"
  /\ db' = db
  /\ \E c \in DeleteOutcomes :
       /\ req' = [req EXCEPT ![r].pc = "remove", ![r].cal = c]
       /\ UNCHANGED <<left, last, hist, asked>>
  /\ History

\* deleteSession: findByIdAndDelete(id)
deleteSession_findByIdAndDelete(r) ==
  /\ req[r].op = "delete" /\ req[r].pc = "remove"
  /\ db' = NoSession
  /\ Finish(r, "ok", 0, req[r].cal)
  /\ History

\* validateSessionPayload without the date check
validateSessionPayloadNoDate(p) ==
  /\ timeRegex(p.startTime) /\ timeRegex(p.endTime)
  /\ p.maxParticipants >= 1 /\ p.maxParticipants <= MaxParticipantsLimit

\* validateSessionPayload: time format, sessionDate <= new Date() is rejected,
\* capacity.maxParticipants in 1..100
validateSessionPayload(p) ==
  /\ timeRegex(p.startTime) /\ timeRegex(p.endTime)
  /\ ~(p.date <= now)
  /\ p.maxParticipants >= 1 /\ p.maxParticipants <= MaxParticipantsLimit

\* the tutor validator without the role check
tutorValidatorAnyUser(u) == u \in Users

\* schema validator of tutor: the user exists and has role tutor
tutorValidator(u) == u \in Users /\ role(u) = "tutor"

\* sessionData of createSession
sessionData(u, p) ==
  [NoSession EXCEPT !.present = TRUE, !.tutor = u,
                    !.maxParticipants = p.maxParticipants, !.currentEnrolled = 0,
                    !.date = p.date,
                    !.startTime = p.startTime, !.endTime = p.endTime,
                    !.status = "scheduled"]

\* payloads of createSession dated the day after the request
CreatePayloads ==
  {[NoPayload EXCEPT !.kind = "create", !.maxParticipants = m, !.date = now + 1,
                     !.startTime = s, !.endTime = e] :
     m \in 0..MaxCap, s \in PayloadTimes, e \in PayloadTimes}

\* router.post("/", authenticateUser, authorizePermissions("tutor", "admin"), ..)
Creators == {u \in Users : role(u) \in {"tutor", "admin"}}

\* createSession: validateSessionPayload, TutoringSession.create(sessionData)
\* (schema validation, then the pre('save') hook, then the insert)
createSession_create(r, u, p) ==
  /\ Start(r)
  /\ ~db.present
  /\ IF ~validateSessionPayload(p)
       THEN db' = db /\ Fail(r, "create", u, p, "BadRequestError")
     ELSE IF ~(tutorValidator(u) /\ dateValidator(p.date))
       THEN db' = db /\ Fail(r, "create", u, p, "ValidationError")
     ELSE IF ~preSaveOk(sessionData(u, p))
       THEN db' = db /\ Fail(r, "create", u, p, "Error")
     ELSE /\ db' = sessionData(u, p)
          /\ Begin(r, "create", u, sessionData(u, p), p, "sync")
  /\ History

\* createCalendarEvent: null when `calendar` is not configured, else the id of
\* the inserted event, or it throws
CreateOutcomes == IF calendarOn THEN {"returned", "threw"} ELSE {"null"}

\* createSession keeping an event id although createCalendarEvent threw
createSession_syncKeepsIdOnThrow(r) ==
  /\ req[r].op = "create" /\ req[r].pc = "sync"
  /\ db' = db
  /\ \E c \in CreateOutcomes :
       /\ req' = [req EXCEPT ![r].pc = "saveRef", ![r].cal = c,
                             ![r].doc.googleEventId = IF c = "null" THEN 0 ELSE 1]
       /\ UNCHANGED <<left, last, hist, asked>>
  /\ History

\* createSession: try { googleEventId = await createCalendarEvent(session) ..
createSession_sync(r) ==
  /\ req[r].op = "create" /\ req[r].pc = "sync"
  /\ db' = db
  /\ \E c \in CreateOutcomes :
       IF c = "threw"
       THEN Finish(r, "ok", 0, c)
       ELSE /\ req' = [req EXCEPT ![r].pc = "saveRef", ![r].cal = c,
                                  ![r].doc.googleEventId = IF c = "returned" THEN 1 ELSE 0]
            /\ UNCHANGED <<left, last, hist, asked>>
  /\ History

\* createSession: session.googleEventId = googleEventId; await session.save()
\* } catch { log }
createSession_save(r) ==
  /\ req[r].op = "create" /\ req[r].pc = "saveRef"
  /\ db' = IF db.present /\ saveValidators(req[r].doc) /\ preSaveOk(req[r].doc)
           THEN [db EXCEPT !.googleEventId = req[r].doc.googleEventId]
           ELSE db
  /\ Finish(r, "ok", 0, req[r].cal)
  /\ History

\* the request is answered in its first step
Reply(r, o, u, p, e) == Fail(r, o, u, p, e)

\* Controllers/tutoringSessionController createTutoringSession: role check,
\* capacity, the tutor named by an admin (User.findById), the tutor's role,
\* date, time format, end after start, TutoringSession.create; ValidationError
\* is rethrown as BadRequestError; no calendar call
createTutoringSession(r, u, p) ==
  /\ Start(r)
  /\ ~db.present
  /\ LET o == "createTutoringSession"
         provided == role(u) = "admin" /\ p.tutor # "none"
         tutorId == IF provided THEN p.tutor ELSE u
     IN IF role(u) \notin {"tutor", "admin"}
          THEN db' = db /\ Reply(r, o, u, p, "UnauthorizedError")
        ELSE IF ~(p.maxParticipants >= 1 /\ p.maxParticipants <= MaxParticipantsLimit)
          THEN db' = db /\ Reply(r, o, u, p, "BadRequestError")
        ELSE IF provided /\ p.tutor \notin Users
          THEN db' = db /\ Reply(r, o, u, p, "NotFoundError")
        ELSE IF provided /\ role(p.tutor) # "tutor"
          THEN db' = db /\ Reply(r, o, u, p, "BadRequestError")
        ELSE IF ~(tutorId \in Users /\ role(tutorId) = "tutor")
          THEN db' = db /\ Reply(r, o, u, p, "BadRequestError")
        ELSE IF p.date <= now
          THEN db' = db /\ Reply(r, o, u, p, "BadRequestError")
        ELSE IF ~(timeRegex(p.startTime) /\ timeRegex(p.endTime))
          THEN db' = db /\ Reply(r, o, u, p, "BadRequestError")
        ELSE IF totalMinutes(p.endTime) <= totalMinutes(p.startTime)
          THEN db' = db /\ Reply(r, o, u, p, "BadRequestError")
        ELSE IF ~(tutorValidator(tutorId) /\ dateValidator(p.date))
          THEN db' = db /\ Reply(r, o, u, p, "BadRequestError")
        ELSE IF ~preSaveOk(sessionData(tutorId, p))
          THEN db' = db /\ Reply(r, o, u, p, "Error")
        ELSE /\ db' = sessionData(tutorId, p)
             /\ Reply(r, o, u, p, "ok")
  /\ History

\* errorHandler: err.statusCode || 500, 400 for ValidationError and CastError;
\* the custom errors carry their statusCode
statusCode(e) ==
  CASE e = "ok" -> 200
    [] e = "BadRequestError" -> 400
    [] e = "UnauthorizedError" -> 403
    [] e = "NotFoundError" -> 404
    [] e \in {"ValidationError", "CastError"} -> 400
    [] OTHER -> 500

\* time passes
Tick ==
  /\ now < MaxTime
  /\ now' = now + 1
  /\ UNCHANGED <<db, req, calendarOn, left, last, recording, base, hist, asked,
                 listing>>

----------------------------------------------------------------------------
\* The service under concurrent requests

Init ==
  /\ db = NoSession
  /\ req = [r \in Slots |-> Idle]
  /\ calendarOn \in BOOLEAN
  /\ left = MaxOps
  /\ last = NoResponse
  /\ recording = FALSE
  /\ base = NoSession
  /\ hist = <<>>
  /\ asked = NoRequest(FALSE)
  /\ now = 0
  /\ listing = NoListing

Next ==
  \E r \in Slots :
    \/ \E u \in Creators, p \in CreatePayloads : createSession_create(r, u, p)
    \/ createSession_sync(r)
    \/ createSession_save(r)
    \/ \E u \in Users, p \in UpdatePayloads : updateSession_findById(r, u, p)
    \/ updateSession_findByIdAndUpdate(r)
    \/ updateSession_sync(r)
    \/ \E u \in Users : deleteSession_findById(r, u)
    \/ deleteSession_sync(r)
    \/ deleteSession_findByIdAndDelete(r)
    \/ \E u \in Students : joinSession_findById(r, u)
    \/ joinSession_addParticipant(r)
    \/ joinSession_sync(r)
    \/ \E u \in Students : leaveSession_findById(r, u)
    \/ leaveSession_removeParticipant(r)
    \/ leaveSession_sync(r)
    \/ \E o \in {"update", "delete", "join", "leave"}, u \in Users :
         validateObjectId_throws(r, o, u)

Spec == Init /\ [][Next]_vars

\* the storage operation a request in flight waits for (every await of the
\* service that is not a calendar call)
storageStep(r) ==
  \/ createSession_save(r)
  \/ updateSession_findByIdAndUpdate(r)
  \/ deleteSession_findByIdAndDelete(r)
  \/ joinSession_addParticipant(r)
  \/ leaveSession_removeParticipant(r)

\* a calendar call while `calendar` is not configured: the adapter returns
\* (or throws on the null client) without a request to the calendar API
unconfiguredSyncStep(r) ==
  /\ ~calendarOn
  /\ \/ createSession_sync(r)
     \/ updateSession_sync(r)
     \/ deleteSession_sync(r)
     \/ joinSession_sync(r)
     \/ leaveSession_sync(r)

\* The service when every storage operation completes.  The requests to the
\* calendar API are awaited without a timeout (googleCalendar.service sets
\* none), so nothing makes a request that does not return end: no fairness on
\* the sync steps of a configured calendar.
SpecLive ==
  /\ Init /\ [][Next]_vars
  /\ \A r \in Slots : WF_vars(storageStep(r)) /\ WF_vars(unconfiguredSyncStep(r))

----------------------------------------------------------------------------
\* Joins and leaves, concurrent, on a session that exists

enrolled(u) == [userId |-> u, status |-> "enrolled"]

\* rosters of distinct students of at most m records
Rosters(m) ==
  {s \in UNION {[1..n -> Students] : n \in 0..m} :
     \A i, j \in 1..Len(s) : i # j => s[i] # s[j]}

\* the session as createSession and the joins of roster s, one after another,
\* leave it; its date is the day after the clock's start
joined(m, s, g) ==
  [NoSession EXCEPT !.present = TRUE, !.tutor = "t1",
                    !.participants = [i \in 1..Len(s) |-> enrolled(s[i])],
                    !.currentEnrolled = Len(s), !.maxParticipants = m,
                    !.date = 1, !.startTime = <<9, 0>>, !.endTime = <<10, 0>>,
                    !.status = "scheduled", !.googleEventId = g, !.v = Len(s)]

\* googleEventId is set by createSession when the calendar returned an id
EventIds == IF calendarOn THEN {0, 1} ELSE {0}

InitJoinLeave ==
  /\ calendarOn \in BOOLEAN
  /\ db \in {joined(m, s, g) : m \in 1..MaxCap, s \in Rosters(MaxCap), g \in EventIds}
  /\ Len(db.participants) <= db.maxParticipants
  /\ req = [r \in Slots |-> Idle]
  /\ left = MaxJoinLeaveOps
  /\ last = NoResponse
  /\ recording = TRUE
  /\ base = db
  /\ hist = <<>>
  /\ asked = NoRequest(FALSE)
  /\ now = 0
  /\ listing = NoListing

NextJoinLeave ==
  \E r \in Slots :
    \/ \E u \in Students : joinSession_findById(r, u)
    \/ joinSession_addParticipant(r)
    \/ joinSession_sync(r)
    \/ \E u \in Students : leaveSession_findById(r, u)
    \/ leaveSession_removeParticipant(r)
    \/ leaveSession_sync(r)

SpecJoinLeave == InitJoinLeave /\ [][NextJoinLeave]_vars

----------------------------------------------------------------------------
\* Requests one after another on a newly created session

\* session.updateParticipantStatus(userId, status) on a freshly loaded session
session_updateParticipantStatus(r, u, st) ==
  /\ Start(r)
  /\ db.present
  /\ LET out == updateParticipantStatus(db, db, u, st)
         e == IF out.err = "none" THEN "ok" ELSE "Error"
     IN /\ db' = out.stored
        /\ req' = req
        /\ left' = left - 1
        /\ last' = [op |-> "status", status |-> e, ret |-> 0, cal |-> "none"]
        /\ hist' = Answered("status", u, e, 0, db)
        /\ asked' = asked
  /\ History

InitNew(rec) ==
  /\ calendarOn \in BOOLEAN
  /\ db \in {joined(m, <<>>, g) : m \in 1..MaxCap, g \in EventIds}
  /\ req = [r \in Slots |-> Idle]
  /\ left = MaxSeqOps
  /\ last = NoResponse
  /\ recording = rec
  /\ base = db
  /\ hist = <<>>
  /\ asked = NoRequest(FALSE)
  /\ now = 0
  /\ listing = NoListing

\* the entity operations, through joinSession and leaveSession where the
\* service calls them
InitEntity == InitNew(FALSE)

NextEntity ==
  \/ \E u \in Students : joinSession_findById(1, u)
  \/ joinSession_addParticipant(1)
  \/ joinSession_sync(1)
  \/ \E u \in Students : leaveSession_findById(1, u)
  \/ leaveSession_removeParticipant(1)
  \/ leaveSession_sync(1)
  \/ \E u \in Students, st \in ParticipantStatus : session_updateParticipantStatus(1, u, st)

SpecEntity == InitEntity /\ [][NextEntity]_vars

\* joinSession, leaveSession and updateSession of the schedule by the session's
\* tutor, one request at a time
InitSeq == InitNew(TRUE)

SchedulePayloads == {p \in UpdatePayloads : p.kind = "schedule"}

NextSeq ==
  \/ \E u \in Students : joinSession_findById(1, u)
  \/ joinSession_addParticipant(1)
  \/ joinSession_sync(1)
  \/ \E u \in Students : leaveSession_findById(1, u)
  \/ leaveSession_removeParticipant(1)
  \/ leaveSession_sync(1)
  \/ \E p \in SchedulePayloads : updateSession_findById(1, db.tutor, p)
  \/ updateSession_findByIdAndUpdate(1)
  \/ updateSession_sync(1)

SpecSeq == InitSeq /\ [][NextSeq]_vars

\* updateSession and deleteSession by every user, one request at a time, on
\* a session of tutor t1: one payload of each kind that validateUpdatePayload
\* tells apart
InitAuth ==
  /\ calendarOn \in BOOLEAN
  /\ db \in {joined(m, <<>>, g) : m \in 1..MaxCap, g \in EventIds}
  /\ req = [r \in Slots |-> Idle]
  /\ left = MaxOps
  /\ last = NoResponse
  /\ recording = FALSE
  /\ base = db
  /\ hist = <<>>
  /\ asked = NoRequest(FALSE)
  /\ now = 0
  /\ listing = NoListing

AuthPayloads ==
  {p \in UpdatePayloads :
     \/ p.kind = "capacity" /\ p.maxParticipants = 1 /\ p.currentEnrolled = 0
     \/ p.kind = "schedule" /\ p.startTime = <<9, 0>> /\ p.endTime \in {<<10, 0>>, <<24, 0>>}}

NextAuth ==
  \/ \E u \in Users, p \in AuthPayloads : updateSession_findById(1, u, p)
  \/ updateSession_findByIdAndUpdate(1)
  \/ updateSession_sync(1)
  \/ \E u \in Users : deleteSession_findById(1, u)
  \/ deleteSession_sync(1)
  \/ deleteSession_findByIdAndDelete(1)
  \/ \E o \in {"update", "delete"}, u \in Users : validateObjectId_throws(1, o, u)

SpecAuth == InitAuth /\ [][NextAuth]_vars

\* One Create, by the service or by the controller, by every user, at any
\* time of the clock
InitCreate ==
  /\ calendarOn \in BOOLEAN
  /\ db = NoSession
  /\ req = [r \in Slots |-> Idle]
  /\ left = 1
  /\ last = NoResponse
  /\ recording = FALSE
  /\ base = db
  /\ hist = <<>>
  /\ asked = NoRequest(TRUE)
  /\ now = 0
  /\ listing = NoListing

\* request bodies: the tutor named (none, a tutor, a student, no user), the
\* capacity, the date, start and end time
CreateBodies ==
  {[NoPayload EXCEPT !.kind = "create", !.tutor = t, !.maxParticipants = m,
                     !.date = d, !.startTime = s, !.endTime = e] :
     t \in {"none", "t1", "u1", "ghost"}, m \in {0, MaxCap}, d \in 0..(MaxTime + 1),
     s \in {<<9, 0>>, <<10, 0>>}, e \in PayloadTimes}

NextCreate ==
  \/ left > 0 /\ \E u \in Users, p \in CreateBodies : createSession_create(1, u, p)
  \/ createSession_sync(1)
  \/ createSession_save(1)
  \/ left > 0 /\ \E u \in Users, p \in CreateBodies : createTutoringSession(1, u, p)
  \/ Tick

SpecCreate == InitCreate /\ [][NextCreate]_vars

\* updateSession of the schedule date, one request at a time, while time
\* passes, on a session dated the day after the clock's start
InitDate ==
  /\ calendarOn \in BOOLEAN
  /\ db \in {joined(m, <<>>, g) : m \in 1..MaxCap, g \in EventIds}
  /\ req = [r \in Slots |-> Idle]
  /\ left = MaxOps
  /\ last = NoResponse
  /\ recording = FALSE
  /\ base = db
  /\ hist = <<>>
  /\ asked = NoRequest(TRUE)
  /\ now = 0
  /\ listing = NoListing

\* updates {schedule: {date, startTime, endTime}} that change the date only
DatePayloads ==
  {[NoPayload EXCEPT !.kind = "date", !.date = d] : d \in 0..(MaxTime + 1)}

NextDate ==
  \/ \E u \in Users, p \in DatePayloads : updateSession_findById(1, u, p)
  \/ updateSession_findByIdAndUpdate(1)
  \/ updateSession_sync(1)
  \/ Tick

SpecDate == InitDate /\ [][NextDate]_vars

\* One List request with every page and limit string, on a stored session
\* and up to MaxOthers others
InitPage ==
  /\ calendarOn = FALSE
  /\ db = joined(MaxCap, <<>>, 0)
  /\ req = [r \in Slots |-> Idle]
  /\ left = 1
  /\ last = NoResponse
  /\ recording = FALSE
  /\ base = db
  /\ hist = <<>>
  /\ asked = NoRequest(FALSE)
  /\ now = 0
  /\ listing = NoListing

PageQueries ==
  {[NoQuery EXCEPT !.page = pg, !.limit = lm] :
     pg \in Strings(MaxLen - 1) \cup {Undefined},
     lm \in Strings(MaxLen) \cup {Undefined}}

NextPage ==
  \/ left > 0 /\ \E q \in PageQueries, n \in 0..MaxOthers : getAllSessions(q, n)
  \/ left > 0 /\ \E q \in PageQueries, n \in 0..MaxOthers : getAllTutoringSessions(q, n)

SpecPage == InitPage /\ [][NextPage]_vars

\* One List request with and without availableSeatsOnly, on a stored session
\* with free seats or full
InitSeats ==
  /\ calendarOn = FALSE
  /\ db \in {joined(m, s, 0) : m \in 1..MaxCap, s \in Rosters(MaxCap)}
  /\ Len(db.participants) <= db.maxParticipants
  /\ req = [r \in Slots |-> Idle]
  /\ left = 1
  /\ last = NoResponse
  /\ recording = FALSE
  /\ base = db
  /\ hist = <<>>
  /\ asked = NoRequest(FALSE)
  /\ now = 0
  /\ listing = NoListing

SeatQueries ==
  {[NoQuery EXCEPT !.page = pg, !.limit = lm, !.availableSeatsOnly = a,
                   !.includeCompleted = c] :
     pg \in {Undefined, <<"1">>, <<"1", "1">>}, lm \in {Undefined, <<"1">>},
     a \in {"undefined", "true", "false"}, c \in {"undefined", "true"}}

NextSeats ==
  \/ left > 0 /\ \E q \in SeatQueries, n \in 0..MaxOthers : getAllSessions(q, n)
  \/ left > 0 /\ \E q \in SeatQueries, n \in 0..MaxOthers : getAllTutoringSessions(q, n)
  \/ Tick

SpecSeats == InitSeats /\ [][NextSeats]_vars

\* One List request with a status and an includeCompleted parameter, on a
\* stored session of any status dated at the clock's start or the day after
InitFilter ==
  /\ calendarOn = FALSE
  /\ db \in {[joined(1, <<>>, 0) EXCEPT !.status = st, !.date = dt] :
               st \in Statuses, dt \in 0..MaxTime}
  /\ req = [r \in Slots |-> Idle]
  /\ left = 1
  /\ last = NoResponse
  /\ recording = FALSE
  /\ base = db
  /\ hist = <<>>
  /\ asked = NoRequest(FALSE)
  /\ now = 0
  /\ listing = NoListing

FilterQueries ==
  {[NoQuery EXCEPT !.includeCompleted = c, !.status = st] :
     c \in {"undefined", "false", "true", "TRUE", "yes"},
     st \in {"undefined", "all"} \cup Statuses}

NextFilter ==
  \/ left > 0 /\ \E q \in FilterQueries, n \in 0..MaxOthers : getAllSessions(q, n)
  \/ left > 0 /\ \E q \in FilterQueries, n \in 0..MaxOthers : getAllTutoringSessions(q, n)
  \/ Tick

SpecFilter == InitFilter /\ [][NextFilter]_vars

\* One List request with a sortBy and a sortOrder parameter
SortQueries ==
  {[NoQuery EXCEPT !.sortBy = b, !.sortOrder = o] :
     b \in {"undefined", "title"} \cup validSortFields,
     o \in {"undefined", "asc", "desc", "ASC", "DESC", "1", "-1", "up"}}

NextSort ==
  \/ left > 0 /\ \E q \in SortQueries, n \in 0..MaxOthers : getAllSessions(q, n)
  \/ left > 0 /\ \E q \in SortQueries, n \in 0..MaxOthers : getAllTutoringSessions(q, n)
  \/ Tick

SpecSort == InitFilter /\ [][NextSort]_vars

\* getSessionById(id): validateObjectId, findById, ensureSessionExists
getSessionById(r, u, id) ==
  IF ~isValid(id) THEN validateObjectId_throws(r, "getById", u)
  ELSE /\ Start(r)
       /\ db' = db
       /\ Fail(r, "getById", u, NoPayload,
               IF db.present /\ id = "s1" THEN "ok" ELSE "NotFoundError")
       /\ History

\* getTutorSessions(tutorId): validateObjectId(tutorId, "tutorId"),
\* find({ tutor: tutorId }); the answer is the number of sessions found
getTutorSessions(r, u, tutorId) ==
  IF ~isValid(tutorId) THEN validateObjectId_throws(r, "getByTutor", u)
  ELSE /\ Start(r)
       /\ db' = db
       /\ req' = req
       /\ left' = left - 1
       /\ last' = [op |-> "getByTutor", status |-> "ok",
                   ret |-> IF db.present /\ db.tutor = tutorId THEN 1 ELSE 0,
                   cal |-> "none"]
       /\ hist' = Answered("getByTutor", u, "ok", 0, db)
       /\ Received("getByTutor", u, NoPayload)
       /\ History

\* the first statement of updateSession, deleteSession, joinSession and
\* leaveSession is validateObjectId(id)
updateSession(r, u, id, p) ==
  IF ~isValid(id) THEN validateObjectId_throws(r, "update", u)
  ELSE id = "s1" /\ updateSession_findById(r, u, p)

deleteSession(r, u, id) ==
  IF ~isValid(id) THEN validateObjectId_throws(r, "delete", u)
  ELSE id = "s1" /\ deleteSession_findById(r, u)

joinSession(r, u, id) ==
  IF ~isValid(id) THEN validateObjectId_throws(r, "join", u)
  ELSE id = "s1" /\ joinSession_findById(r, u)

leaveSession(r, u, id) ==
  IF ~isValid(id) THEN validateObjectId_throws(r, "leave", u)
  ELSE id = "s1" /\ leaveSession_findById(r, u)

\* Requests by id, valid or not, on a stored session
InitIds ==
  /\ calendarOn \in BOOLEAN
  /\ db \in {joined(1, <<>>, g) : g \in EventIds}
  /\ req = [r \in Slots |-> Idle]
  /\ left = MaxOps
  /\ last = NoResponse
  /\ recording = FALSE
  /\ base = db
  /\ hist = <<>>
  /\ asked = NoRequest(TRUE)
  /\ now = 0
  /\ listing = NoListing

SessionIds == {"s1", "xyz"}

NextIds ==
  \/ left > 0 /\ \E u \in Users, id \in Ids : getSessionById(1, u, id)
  \/ left > 0 /\ \E u \in Users, id \in Ids : getTutorSessions(1, u, id)
  \/ left > 0 /\ \E u \in Users, id \in SessionIds, p \in AuthPayloads :
       updateSession(1, u, id, p)
  \/ updateSession_findByIdAndUpdate(1)
  \/ updateSession_sync(1)
  \/ left > 0 /\ \E u \in Users, id \in SessionIds : deleteSession(1, u, id)
  \/ deleteSession_sync(1)
  \/ deleteSession_findByIdAndDelete(1)
  \/ left > 0 /\ \E u \in Students, id \in SessionIds : joinSession(1, u, id)
  \/ joinSession_addParticipant(1)
  \/ joinSession_sync(1)
  \/ left > 0 /\ \E u \in Students, id \in SessionIds : leaveSession(1, u, id)
  \/ leaveSession_removeParticipant(1)
  \/ leaveSession_sync(1)

SpecIds == InitIds /\ [][NextIds]_vars

\* Create as the first request, then Update, Delete, Join and Leave of the
\* created session, two requests at a time, with one payload of each kind
RefCreatePayloads ==
  {p \in CreatePayloads :
     p.maxParticipants = 1 /\ p.startTime = <<9, 0>> /\ p.endTime = <<10, 0>>}

RefPayloads ==
  {statusPayload("cancelled", TRUE)}
  \cup {p \in UpdatePayloads :
          p.kind = "capacity" /\ p.maxParticipants = MaxCap /\ p.currentEnrolled = 0}

NextRef ==
  \E r \in Slots :
    \/ left = MaxJoinLeaveOps /\ \E p \in RefCreatePayloads : createSession_create(r, "t1", p)
    \/ createSession_sync(r)
    \/ createSession_save(r)
    \/ left > 0 /\ \E u \in {"t1", "t2"}, p \in RefPayloads : updateSession_findById(r, u, p)
    \/ updateSession_findByIdAndUpdate(r)
    \/ updateSession_sync(r)
    \/ left > 0 /\ deleteSession_findById(r, "t1")
    \/ deleteSession_sync(r)
    \/ deleteSession_findByIdAndDelete(r)
    \/ left > 0 /\ \E u \in {"u1", "t1"} : joinSession_findById(r, u)
    \/ joinSession_addParticipant(r)
    \/ joinSession_sync(r)
    \/ left > 0 /\ leaveSession_findById(r, "u1")
    \/ leaveSession_removeParticipant(r)
    \/ leaveSession_sync(r)

InitRef ==
  /\ db = NoSession
  /\ req = [r \in Slots |-> Idle]
  /\ calendarOn \in BOOLEAN
  /\ left = MaxJoinLeaveOps
  /\ last = NoResponse
  /\ recording = FALSE
  /\ base = NoSession
  /\ hist = <<>>
  /\ asked = NoRequest(FALSE)
  /\ now = 0
  /\ listing = NoListing

SpecRef == InitRef /\ [][NextRef]_vars

\* Create, then Updates of the status one after another
InitStatus ==
  /\ db = NoSession
  /\ req = [r \in Slots |-> Idle]
  /\ calendarOn \in BOOLEAN
  /\ left = MaxSeqOps
  /\ last = NoResponse
  /\ recording = TRUE
  /\ base = NoSession
  /\ hist = <<>>
  /\ asked = NoRequest(FALSE)
  /\ now = 0
  /\ listing = NoListing

StatusPayloads == {statusPayload(st, FALSE) : st \in Statuses \cup {"archived"}}

NextStatus ==
  \/ left > 0 /\ \E p \in RefCreatePayloads : createSession_create(1, "t1", p)
  \/ createSession_sync(1)
  \/ createSession_save(1)
  \/ left > 0 /\ \E p \in RefCreatePayloads : createTutoringSession(1, "t1", p)
  \/ left > 0 /\ \E u \in {"t1", "t2", "a1"}, p \in StatusPayloads :
       updateSession_findById(1, u, p)
  \/ updateSession_findByIdAndUpdate(1)
  \/ updateSession_sync(1)

SpecStatus == InitStatus /\ [][NextStatus]_vars

\* Joins, one after another, of a stored session of any status, dated at the
\* clock's start or the day after, while time passes
InitJoinAny ==
  /\ calendarOn = FALSE
  /\ db \in {[joined(m, s, 0) EXCEPT !.status = st, !.date = dt] :
               m \in 1..MaxCap, s \in Rosters(MaxCap), st \in Statuses,
               dt \in 0..MaxTime}
  /\ Len(db.participants) <= db.maxParticipants
  /\ req = [r \in Slots |-> Idle]
  /\ left = MaxOps
  /\ last = NoResponse
  /\ recording = FALSE
  /\ base = db
  /\ hist = <<>>
  /\ asked = NoRequest(FALSE)
  /\ now = 0
  /\ listing = NoListing

NextJoinAny ==
  \/ left > 0 /\ \E u \in Students \cup {"t1"} : joinSession_findById(1, u)
  \/ joinSession_addParticipant(1)
  \/ Tick

SpecJoinAny == InitJoinAny /\ [][NextJoinAny]_vars

----------------------------------------------------------------------------
TypeOK ==
  /\ db.present \in BOOLEAN
  /\ calendarOn \in BOOLEAN
  /\ left \in 0..Max(MaxOps, Max(MaxJoinLeaveOps, MaxSeqOps))

----------------------------------------------------------------------------
\* Properties

InFlight == {r \in Slots : req[r].op # "none"}
Quiescent == InFlight = {}

hasRecord(d, u) == \E i \in 1..Len(d.participants) : d.participants[i].userId = u

hasEnrolledRecord(d, u) ==
  \E i \in 1..Len(d.participants) :
    d.participants[i].userId = u /\ d.participants[i].status = "enrolled"

\* the step is taken by the request of slot r
StepOf(r) == req'[r] # req[r]

\* C1: with k = maxParticipants - currentEnrolled free seats at the start and
\* only Join requests, by distinct users, at most k of the Joins succeed and
\* the roster never holds more than maxParticipants records.
C1_JoinsWithinFreeSeats ==
  LET answered == 1..Len(hist)
      users == {hist[i].user : i \in answered} \cup {req[r].user : r \in InFlight}
      succeeded == {i \in answered : hist[i].status = "ok"}
  IN (/\ \A i \in answered : hist[i].op = "join"
      /\ \A r \in InFlight : req[r].op = "join"
      /\ Cardinality(users) = Len(hist) + Cardinality(InFlight))
     => /\ Cardinality(succeeded) <= base.maxParticipants - base.currentEnrolled
        /\ Len(db.participants) <= db.maxParticipants

\* the stored session after the answered request h run alone on d
runAlone(d, h) ==
  IF h.op = "join" THEN addParticipant(d, d, h.user).stored
                   ELSE removeParticipant(d, d, h.user).stored

\* the sessions that the requests of hist with index in S, run one after
\* another in any order, leave from d
RECURSIVE oneAfterAnother(_, _)
oneAfterAnother(d, S) ==
  IF S = {} THEN {d}
  ELSE UNION {oneAfterAnother(runAlone(d, hist[i]), S \ {i}) : i \in S}

\* C2: when every Join/Leave request has been answered, the stored roster and
\* currentEnrolled are those left by the same requests run one after another
\* in some order.
C2_JoinLeaveSerializable ==
  Quiescent =>
    \E d \in oneAfterAnother(base, 1..Len(hist)) :
      /\ d.participants = db.participants
      /\ d.currentEnrolled = db.currentEnrolled

\* C3: every stored session has 0 <= currentEnrolled <= maxParticipants.
C3_EnrolledWithinCapacity ==
  db.present => (0 <= db.currentEnrolled /\ db.currentEnrolled <= db.maxParticipants)

\* C4: no stored roster holds two records with the same userId.
C4_NoDuplicateParticipant ==
  \A i, j \in 1..Len(db.participants) :
    i # j => db.participants[i].userId # db.participants[j].userId

\* C5: after any sequence of addParticipant, removeParticipant and
\* updateParticipantStatus on a new session, currentEnrolled is the number of
\* records with status enrolled.
C5_CounterIsEnrolledCount ==
  db.currentEnrolled =
    Cardinality({i \in 1..Len(db.participants) : db.participants[i].status = "enrolled"})

\* C6: Join, Leave, Join in a row by a user not on the roster of a session that
\* is not full: both Joins succeed, the Leave restores roster and counter, and
\* the second Join returns what the first returned.
C6_JoinLeaveJoin ==
  \A i \in 1..(Len(hist) - 2) :
    LET a == hist[i]
        b == hist[i + 1]
        c == hist[i + 2]
    IN (/\ a.op = "join" /\ b.op = "leave" /\ c.op = "join"
        /\ a.user = b.user /\ b.user = c.user
        /\ a.pre.currentEnrolled < a.pre.maxParticipants
        /\ ~hasRecord(a.pre, a.user))
       => /\ a.status = "ok" /\ c.status = "ok"
          /\ b.post.participants = a.pre.participants
          /\ b.post.currentEnrolled = a.pre.currentEnrolled
          /\ c.ret = a.ret

\* C7: a Join that loaded a session with currentEnrolled >= maxParticipants, or
\* with an enrolled record of the user, is answered with BadRequestError (400)
\* and its write step leaves the stored session as it is.
C7_RejectedJoinWritesNothing ==
  [][\A r \in Slots :
       (/\ req[r].op = "join" /\ req[r].pc = "save" /\ StepOf(r)
        /\ \/ req[r].doc.currentEnrolled >= req[r].doc.maxParticipants
           \/ hasEnrolledRecord(req[r].doc, req[r].user))
       => /\ db' = db
          /\ req'[r] = Idle
          /\ last'.op = "join" /\ last'.status = "BadRequestError"
          /\ Len(hist') = Len(hist) + 1
          /\ hist'[Len(hist')].user = req[r].user
          /\ hist'[Len(hist')].status = "BadRequestError"]_vars

\* C7 witness: a Join rejected on a full session and a Join rejected for a user
\* with an enrolled record on a session that is not full, both with the stored
\* session unchanged
C7_Witness ==
  /\ \E i \in 1..Len(hist) :
       /\ hist[i].op = "join" /\ hist[i].status = "BadRequestError"
       /\ hist[i].pre.currentEnrolled >= hist[i].pre.maxParticipants
       /\ hist[i].post = hist[i].pre
  /\ \E j \in 1..Len(hist) :
       /\ hist[j].op = "join" /\ hist[j].status = "BadRequestError"
       /\ hist[j].pre.currentEnrolled < hist[j].pre.maxParticipants
       /\ hasEnrolledRecord(hist[j].pre, hist[j].user)
       /\ hist[j].post = hist[j].pre

\* C8: addParticipant on a session that is not full is rejected only when the
\* roster holds an enrolled record of the user; otherwise it appends one
\* enrolled record at the end, raises currentEnrolled by 1, and Join returns
\* the new currentEnrolled.
C8_DuplicateOnlyWhenEnrolled ==
  [][(/\ req[1].op = "join" /\ req[1].pc = "save" /\ StepOf(1)
      /\ req[1].doc.currentEnrolled < req[1].doc.maxParticipants)
     => IF hasEnrolledRecord(req[1].doc, req[1].user)
        THEN last'.status = "BadRequestError" /\ db' = db
        ELSE /\ db'.participants = Append(req[1].doc.participants, enrolled(req[1].user))
             /\ db'.currentEnrolled = req[1].doc.currentEnrolled + 1
             /\ IF req'[1] = Idle
                  THEN last'.status = "ok" /\ last'.ret = db'.currentEnrolled
                  ELSE req'[1].ret = db'.currentEnrolled]_vars

\* C9: Leave by a user without a record is answered with BadRequestError and
\* writes nothing; Leave by a user with a record removes exactly that record,
\* keeps the order of the others and sets currentEnrolled to
\* max(0, currentEnrolled - 1).
C9_LeaveRemovesOneRecord ==
  [][(req[1].op = "leave" /\ req[1].pc = "save" /\ StepOf(1))
     => LET d == req[1].doc
            u == req[1].user
        IN IF ~hasRecord(d, u)
           THEN last'.status = "BadRequestError" /\ db' = db
           ELSE /\ \E i \in 1..Len(d.participants) :
                     /\ d.participants[i].userId = u
                     /\ db'.participants =
                          SubSeq(d.participants, 1, i - 1)
                            \o SubSeq(d.participants, i + 1, Len(d.participants))
                /\ db'.currentEnrolled = Max(0, d.currentEnrolled - 1)]_vars

\* C10: a Delete that loaded a session with googleEventId set calls
\* deleteCalendarEvent before it removes the record, and removes the record
\* whether the call returned or threw; a Delete that loaded a session without
\* googleEventId removes the record without a calendar call.
C10_DeleteCalendarThenRecord ==
  [][\A r \in Slots :
       /\ (req[r].pc = "idle" /\ req'[r].op = "delete")
          => /\ db' = db
             /\ req'[r].cal = "none"
             /\ req'[r].pc = IF db.googleEventId # 0 THEN "sync" ELSE "remove"
       /\ (req[r].op = "delete" /\ req[r].pc = "sync" /\ StepOf(r))
          => /\ db' = db
             /\ req'[r].op = "delete" /\ req'[r].pc = "remove"
             /\ req'[r].cal \in {"returned", "threw"}
       /\ (req[r].op = "delete" /\ req[r].pc = "remove" /\ StepOf(r))
          => /\ ~db'.present
             /\ last'.op = "delete" /\ last'.status = "ok"
             /\ last'.cal = req[r].cal
             /\ (req[r].doc.googleEventId # 0) <=> (req[r].cal \in {"returned", "threw"})]_vars

\* C10 witness: a Delete answered after deleteCalendarEvent threw, the record
\* removed
C10_Witness ==
  /\ last.op = "delete" /\ last.status = "ok" /\ last.cal = "threw"
  /\ ~db.present
  /\ Quiescent

C12_CalendarNeverBlocks ==
  \A r \in Slots : (req[r].op # "none") ~> (req[r].op = "none")

\* C12 witness: a request waits for updateCalendarEvent, its storage write done
C12_Witness ==
  \E r \in Slots :
    /\ req[r].op = "join" /\ req[r].pc = "sync"
    /\ hasRecord(db, req[r].user)

\* C13 (as claimed): an Update or Delete by an actor who is neither the
\* session's tutor nor an admin is answered with UnauthorizedError, an Update
\* or Delete of an id with no session with NotFoundError; nothing is written
\* and the request ends without a calendar call.
C13_UnauthorizedOrNotFound ==
  [][\A r \in {1}, u \in Users :
       /\ ((\E p \in AuthPayloads : updateSession_findById(r, u, p))
             \/ deleteSession_findById(r, u))
          => /\ ~db.present
                  => last'.status = "NotFoundError" /\ db' = db /\ req' = req
             /\ (db.present /\ db.tutor # u /\ role(u) # "admin")
                  => last'.status = "UnauthorizedError" /\ db' = db /\ req' = req
       /\ (\E o \in {"update", "delete"} : validateObjectId_throws(r, o, u))
          => last'.status = "NotFoundError" /\ db' = db /\ req' = req]_vars

\* C13 (amended): an Update or Delete with an id that is not a valid ObjectId,
\* and an Update whose schedule times fail the HH:MM check, are answered with
\* BadRequestError before the session is looked up; otherwise an Update or
\* Delete of an id with no session is answered with NotFoundError, and one by
\* an actor who is neither the session's tutor nor an admin with
\* UnauthorizedError; in all these cases nothing is written and the request
\* ends without a calendar call.
C13_RejectedBeforeAnyWrite ==
  [][\A r \in {1}, u \in Users :
       /\ \A p \in AuthPayloads :
            updateSession_findById(r, u, p)
            => IF p.kind = "schedule" /\ ~(timeRegex(p.startTime) /\ timeRegex(p.endTime))
                 THEN last'.status = "BadRequestError" /\ db' = db /\ req' = req
               ELSE IF ~db.present
                 THEN last'.status = "NotFoundError" /\ db' = db /\ req' = req
               ELSE (db.tutor # u /\ role(u) # "admin")
                    => last'.status = "UnauthorizedError" /\ db' = db /\ req' = req
       /\ deleteSession_findById(r, u)
          => IF ~db.present
               THEN last'.status = "NotFoundError" /\ db' = db /\ req' = req
             ELSE (db.tutor # u /\ role(u) # "admin")
                  => last'.status = "UnauthorizedError" /\ db' = db /\ req' = req
       /\ (\E o \in {"update", "delete"} : validateObjectId_throws(r, o, u))
          => last'.status = "BadRequestError" /\ db' = db /\ req' = req]_vars

\* C13 witness: an Update of the stored session was answered with
\* UnauthorizedError and no request is in flight
C13_Witness ==
  /\ last.op = "update" /\ last.status = "UnauthorizedError"
  /\ db.present /\ db.tutor = "t1"
  /\ Quiescent

\* the step receives a Create request, by the service or by the controller
CreateReceived ==
  left' = left - 1 /\ asked'.op \in {"create", "createTutoringSession"}

\* C14: a Create persists a session only for an actor of role tutor or admin;
\* the tutor of the persisted session is a user of role tutor: the actor when
\* a tutor creates, the tutor named in the payload when an admin creates; a
\* Create that persists nothing is answered with an error.
C14_CreatePersistsTutorSession ==
  [][CreateReceived
     => LET u == asked'.user
            p == asked'.payload
        IN IF db'.present
           THEN /\ role(u) \in {"tutor", "admin"}
                /\ db'.tutor \in Users /\ role(db'.tutor) = "tutor"
                /\ role(u) = "tutor" => db'.tutor = u
                /\ role(u) = "admin" => db'.tutor = p.tutor
           ELSE /\ req' = req
                /\ last'.op = asked'.op /\ last'.status # "ok"]_vars

\* C14 witness: an admin's Create that names tutor t1 persisted a session of
\* tutor t1
C14_Witness ==
  /\ asked.op = "createTutoringSession" /\ asked.user = "a1"
  /\ asked.payload.tutor = "t1"
  /\ last.status = "ok"
  /\ db.present /\ db.tutor = "t1"

\* C15: the start and end time of every stored session give a positive
\* duration (end - start in minutes): no Create and no Update stores times
\* whose duration is not positive.
C15_DurationPositive ==
  db.present => preSaveDuration(db) > 0

\* C15 witness: an Update was answered "ok" and the stored end time is not
\* after the stored start time
C15_Witness ==
  /\ last.op = "update" /\ last.status = "ok"
  /\ db.present /\ totalMinutes(db.endTime) <= totalMinutes(db.startTime)

\* C16: a Create by a tutor, with a valid capacity and a future date, whose
\* start and end time are well-formed but whose end time is not after its
\* start time, persists nothing and is answered with status 400.
C16_EndNotAfterStartIs400 ==
  [][(/\ CreateReceived
      /\ role(asked'.user) = "tutor"
      /\ asked'.payload.maxParticipants >= 1
      /\ asked'.payload.maxParticipants <= MaxParticipantsLimit
      /\ asked'.payload.date > now
      /\ timeRegex(asked'.payload.startTime) /\ timeRegex(asked'.payload.endTime)
      /\ totalMinutes(asked'.payload.endTime) <= totalMinutes(asked'.payload.startTime))
     => /\ ~db'.present
        /\ req' = req
        /\ statusCode(last'.status) = 400]_vars

\* C16 witness: createSession by a tutor with end time not after start time
\* was answered with the hook's plain Error, status 500
C16_Witness ==
  /\ asked.op = "create" /\ role(asked.user) = "tutor"
  /\ totalMinutes(asked.payload.endTime) <= totalMinutes(asked.payload.startTime)
  /\ last.op = "create" /\ last.status = "Error" /\ statusCode(last.status) = 500
  /\ ~db.present

\* C17: a Create whose schedule.date is not later than the time of the request
\* persists nothing and is answered with an error (BadRequestError by
\* createSession); a Create that persists a session stores the date of its
\* payload, which is later than the time of the request.
C17_CreateDateInFuture ==
  [][CreateReceived
     => LET p == asked'.payload
        IN /\ p.date <= now
                => /\ ~db'.present
                   /\ req' = req
                   /\ last'.status # "ok"
                   /\ asked'.op = "create" => last'.status = "BadRequestError"
           /\ db'.present => (db'.date = p.date /\ db'.date > now)]_vars

\* C17 witness: createSession by a tutor, valid but for a date that has
\* passed, was answered with BadRequestError
C17_Witness ==
  /\ asked.op = "create" /\ role(asked.user) = "tutor"
  /\ asked.payload.date < now
  /\ asked.payload.maxParticipants >= 1
  /\ totalMinutes(asked.payload.endTime) > totalMinutes(asked.payload.startTime)
  /\ timeRegex(asked.payload.endTime)
  /\ last.op = "create" /\ last.status = "BadRequestError"
  /\ ~db.present

\* the step is the findByIdAndUpdate of an Update of the date, by the
\* session's tutor or an admin, of a session that exists
DateWrite ==
  /\ req[1].op = "update" /\ req[1].pc = "write" /\ StepOf(1)
  /\ req[1].payload.kind = "date"
  /\ db.present
  /\ req[1].user = db.tutor \/ role(req[1].user) = "admin"

C19_Pagination ==
  listing.path # "none"
  => LET pg == parseInt(listing.query.page)
         lm == parseInt(listing.query.limit)
     IN /\ listing.page >= 1
        /\ listing.limit >= 1 /\ listing.limit <= 100
        /\ listing.skip >= 0
        /\ listing.skip = (listing.page - 1) * listing.limit
        /\ (pg.nan \/ pg.val <= 0) => listing.page = 1
        /\ (~pg.nan /\ pg.val >= 1) => listing.page = pg.val
        /\ (lm.nan \/ lm.val = 0) => listing.limit = 10
        /\ (~lm.nan /\ lm.val < 0) => listing.limit = 1
        /\ (~lm.nan /\ lm.val > 100) => listing.limit = 100
        /\ (~lm.nan /\ lm.val >= 1 /\ lm.val <= 100) => listing.limit = lm.val
        /\ listing.totalPages * listing.limit >= listing.total
        /\ (listing.totalPages - 1) * listing.limit < listing.total

\* C19 witness: a List with a negative page and a limit over 100 was answered
\* with page 1, limit 100 and one page for the sessions found
C19_Witness ==
  /\ listing.path = "service"
  /\ ~parseInt(listing.query.page).nan /\ parseInt(listing.query.page).val < 0
  /\ ~parseInt(listing.query.limit).nan /\ parseInt(listing.query.limit).val > 100
  /\ listing.page = 1 /\ listing.limit = 100 /\ listing.skip = 0
  /\ listing.total > 0 /\ listing.totalPages = 1

\* C20: a List with availableSeatsOnly = "true" returns no session whose
\* currentEnrolled has reached maxParticipants, whatever the other parameters
\* and whichever implementation answers.
C20_AvailableSeatsOnly ==
  (listing.path # "none" /\ listing.query.availableSeatsOnly = "true")
  => \A i \in 1..Len(listing.sessions) :
       listing.sessions[i].currentEnrolled < listing.sessions[i].maxParticipants

\* C20 witness: getAllSessions with availableSeatsOnly = "true" returned a
\* full session
C20_Witness ==
  /\ listing.path = "service" /\ listing.query.availableSeatsOnly = "true"
  /\ Len(listing.sessions) = 1
  /\ listing.sessions[1].currentEnrolled >= listing.sessions[1].maxParticipants

\* C21: a List request without includeCompleted=true and without a status
\* parameter finds exactly the scheduled sessions dated now or later; with a
\* status parameter it finds exactly the sessions of that status; with
\* includeCompleted=true it finds every session (of the status parameter, if
\* one is given), cancelled and past ones included.
C21_DefaultFilter ==
  [][(listing' # listing
      /\ listing'.query.includeCompleted \in {"undefined", "false", "true"}
      /\ listing'.query.status \in {"undefined"} \cup Statuses)
     => LET q == listing'.query
        IN listing'.found <=>
             IF q.includeCompleted = "true"
               THEN q.status # "undefined" => db.status = q.status
             ELSE IF q.status # "undefined"
               THEN db.status = q.status
             ELSE db.status = "scheduled" /\ db.date >= now]_vars

\* a cancelled session dated in the past is stored and a List request with
\* includeCompleted=true was answered on the controller's path
C21_Witness ==
  /\ listing.path = "controller"
  /\ listing.query.includeCompleted = "true"
  /\ listing.query.status = "undefined"
  /\ db.status = "cancelled"
  /\ db.date < now

\* C22: the sort of every List request names one field of the whitelist
\* (schedule.date, subject, level, createdAt, capacity.maxParticipants,
\* capacity.currentEnrolled); a sortBy outside the whitelist gives
\* schedule.date, ascending unless descending order is asked; sortOrder is
\* read without regard to case: desc, DESC and -1 give descending order, asc,
\* ASC, 1 and no sortOrder give ascending order.
C22_SortSpec ==
  listing.path # "none" =>
    LET q == listing.query
        whitelist == {"schedule.date", "subject", "level", "createdAt",
                      "capacity.maxParticipants", "capacity.currentEnrolled"}
        descending == toLowerCase(q.sortOrder) \in {"desc", "-1"}
        ascending == toLowerCase(q.sortOrder) \in {"asc", "1", "undefined"}
    IN /\ listing.sort.field \in whitelist
       /\ listing.sort.order \in {1, -1}
       /\ q.sortBy \notin whitelist => listing.sort.field = "schedule.date"
       /\ descending => listing.sort.order = -1
       /\ ascending => listing.sort.order = 1

\* a List request with sortOrder=DESC was answered on the controller's path
C22_Witness ==
  /\ listing.path = "controller"
  /\ listing.query.sortOrder = "DESC"
  /\ listing.query.sortBy = "subject"
  /\ listing.sort.field = "subject"

\* C23: a request of GetById, Update, Delete, Join, Leave or GetByTutor whose
\* id is not a valid ObjectId is answered with BadRequestError (status 400) in
\* its first step: nothing is read from or written to storage, no request
\* step is left to run and no calendar call is made for it.
C23_InvalidIdRejectedFirst ==
  [][(left' = left - 1 /\ asked'.payload.kind = "invalidId")
     => /\ asked'.op \in {"getById", "update", "delete", "join", "leave", "getByTutor"}
        /\ last'.op = asked'.op
        /\ last'.status = "BadRequestError"
        /\ statusCode(last'.status) = 400
        /\ last'.cal = "none"
        /\ db' = db
        /\ req' = req]_vars

\* the session was deleted and a Join with an invalid id was then rejected
C23_Witness ==
  /\ asked.payload.kind = "invalidId"
  /\ asked.op = "join"
  /\ last.op = "join"
  /\ last.status = "BadRequestError"
  /\ ~db.present
  /\ left = 0

\* C24: a Join or Leave whose entity method throws a roster rule violation
\* (session full, already enrolled, not enrolled) is answered with status 400;
\* a Join or Leave whose save fails in storage (the document is gone or its
\* version has moved) is answered with status 500, not 400.
C24_RosterIs400StorageIs500 ==
  [][\A r \in Slots :
       (StepOf(r) /\ req[r].pc = "save" /\ req[r].op \in {"join", "leave"})
       => LET out == IF req[r].op = "join"
                       THEN addParticipant(db, req[r].doc, req[r].user)
                       ELSE removeParticipant(db, req[r].doc, req[r].user)
          IN /\ out.err \in {"Session is at full capacity",
                             "User is already enrolled in this session",
                             "User is not enrolled in this session"}
                  => statusCode(last'.status) = 400
             /\ out.err \in {"VersionError", "DocumentNotFoundError"}
                  => statusCode(last'.status) = 500]_vars

\* a Leave of an enrolled user, with a seat taken and the user on the loaded
\* roster, was answered with BadRequestError
C24_Witness ==
  \E i \in 1..Len(hist) :
    /\ hist[i].op = "leave"
    /\ hist[i].status = "BadRequestError"
    /\ participantIndex(hist[i].pre, hist[i].user) # 0

\* C25: a created session has no googleEventId; the stored googleEventId is
\* set only by the step of Create that saves the id a calendar-create call
\* returned; when the call threw or returned nothing the field stays unset;
\* no step of Update, Join or Leave sets or changes it.
C25_RefOnlyFromCalendarCreate ==
  [][/\ (~db.present /\ db'.present) => db'.googleEventId = 0
     /\ (db'.present /\ db'.googleEventId # db.googleEventId)
          => \E r \in Slots :
               /\ StepOf(r)
               /\ req[r].op = "create" /\ req[r].pc = "saveRef"
               /\ req[r].cal = "returned"
               /\ calendarOn
               /\ db'.googleEventId = req[r].doc.googleEventId
     /\ \A r \in Slots :
          (StepOf(r) /\ req[r].op \in {"update", "join", "leave"})
          => db'.googleEventId = db.googleEventId]_vars

\* the created session got its googleEventId and an Update naming
\* googleEventId was then applied
C25_Witness ==
  /\ db.present
  /\ db.googleEventId = 1
  /\ db.status = "cancelled"
  /\ last.op = "update"
  /\ last.status = "ok"

\* C26: no step of an Update changes the session's identity (the record stays
\* the stored one), tutor, participants list or googleEventId, also when the
\* payload names tutor, participants and googleEventId; the allowed fields of
\* the payload (here status and capacity) are written.
C26_UpdateFrame ==
  [][\A r \in Slots :
       (StepOf(r) /\ req[r].op = "update")
       => /\ db'.present = db.present
          /\ db'.tutor = db.tutor
          /\ db'.participants = db.participants
          /\ db'.googleEventId = db.googleEventId
          /\ db'.v = db.v
          /\ (req[r].pc = "write" /\ db.present /\ updateValidators(req[r].payload)
                /\ req[r].payload.kind = "status")
               => db'.status = req[r].payload.status]_vars

\* an Update naming another tutor and another roster was applied to a session
\* of tutor t1 with u1 enrolled
C26_Witness ==
  /\ last.op = "update"
  /\ last.status = "ok"
  /\ db.status = "cancelled"
  /\ db.tutor = "t1"
  /\ db.participants = <<enrolled("u1")>>

\* C27: the status of a stored session is always one of scheduled,
\* in-progress, completed, cancelled; it is scheduled when Create has stored
\* the session; and the write of an authorized Update whose payload carries
\* one of the four values stores that value whatever the status was before.
C27_StatusUnguarded ==
  /\ [](db.present => db.status \in Statuses)
  /\ [][/\ (~db.present /\ db'.present) => db'.status = "scheduled"
        /\ \A r \in Slots :
             (StepOf(r) /\ req[r].op = "update" /\ req[r].pc = "write"
                /\ db.present /\ req[r].payload.kind = "status"
                /\ req[r].payload.status \in Statuses)
             => /\ checkOwnershipOrAdmin(db, req[r].user)
                /\ db'.status = req[r].payload.status]_vars

\* Updates took the session from completed back to scheduled and from
\* cancelled to in-progress
C27_Witness ==
  /\ \E i \in 1..Len(hist) :
       /\ hist[i].op = "update" /\ hist[i].status = "ok"
       /\ hist[i].pre.status = "completed" /\ hist[i].post.status = "scheduled"
  /\ \E i \in 1..Len(hist) :
       /\ hist[i].op = "update" /\ hist[i].status = "ok"
       /\ hist[i].pre.status = "scheduled" /\ hist[i].post.status = "completed"

\* C28: a request of Update, Join or Leave goes on to its calendar-update call
\* only in the step that persisted its mutation (the joined user's record is
\* added to the stored roster, a record of the leaving user is taken off it,
\* the updated fields are stored) and
\* only when the stored session has a googleEventId; when the session has
\* none the request ends in that step, and only a calendar step answers with
\* a calendar outcome.
C28_CalendarUpdateAfterPersist ==
  [][\A r \in Slots :
       (StepOf(r) /\ req[r].op \in {"update", "join", "leave"})
       => /\ (req'[r].pc = "sync" /\ req[r].pc # "sync")
               => /\ req[r].pc \in {"save", "write"}
                  /\ db'.present
                  /\ db'.googleEventId # 0
                  /\ req[r].op = "join"
                       => db'.participants = Append(db.participants, enrolled(req[r].user))
                  /\ req[r].op = "leave"
                       => /\ Len(db'.participants) = Len(db.participants) - 1
                          /\ participantIndex(db, req[r].user) # 0
                  /\ req[r].op = "update" => db' = applyUpdate(db, req[r].payload)
          /\ (req[r].pc \in {"save", "write"} /\ db'.googleEventId = 0)
               => (req'[r] = Idle /\ last'.op = req[r].op /\ last'.cal = "none")
          /\ (req[r].pc # "sync" /\ req'[r] = Idle) => last'.cal = "none"]_vars

\* a Join on a session with a googleEventId has stored the user and waits for
\* its calendar call
C28_Witness ==
  \E r \in Slots :
    /\ req[r].op = "join" /\ req[r].pc = "sync"
    /\ db.googleEventId = 1
    /\ isAlreadyEnrolled(db, req[r].user)

\* C29 as stated: the save step of a Join, by any user including the
\* session's tutor, ends as it would on a scheduled session dated in the
\* future with the same roster and capacity, whatever the session's status
\* and date are.
C29_JoinIgnoresStatusAndDate ==
  [][\A r \in Slots :
       (StepOf(r) /\ req[r].op = "join" /\ req[r].pc = "save")
       => LET d == req[r].doc
              scheduled == [d EXCEPT !.status = "scheduled", !.date = now + 1]
              expected == addParticipant(db, scheduled, req[r].user)
          IN /\ last'.status = IF expected.err = "none" THEN "ok" ELSE "BadRequestError"
             /\ db'.participants = expected.stored.participants
             /\ db'.currentEnrolled = expected.stored.currentEnrolled]_vars

\* C29: the save step of a Join, by any user including the session's tutor,
\* ends as it would on a scheduled session of the same date, roster and
\* capacity, whatever the session's status is; on a session with a free seat
\* whose date is not in the future it is answered with status 400 and the
\* roster is not changed.
C29_JoinIgnoresStatus ==
  [][\A r \in Slots :
       (StepOf(r) /\ req[r].op = "join" /\ req[r].pc = "save")
       => LET d == req[r].doc
              scheduled == [d EXCEPT !.status = "scheduled"]
              expected == addParticipant(db, scheduled, req[r].user)
          IN /\ last'.status = IF expected.err = "none" THEN "ok" ELSE "BadRequestError"
             /\ db'.participants = expected.stored.participants
             /\ db'.currentEnrolled = expected.stored.currentEnrolled
             /\ d.date <= now
                  => /\ statusCode(last'.status) = 400
                     /\ db' = db
             /\ (d.date > now /\ ~isFull(d) /\ ~isAlreadyEnrolled(d, req[r].user))
                  => /\ last'.status = "ok"
                     /\ isAlreadyEnrolled(db', req[r].user)]_vars

\* the tutor of a cancelled session has joined it
C29_Witness ==
  /\ last.op = "join"
  /\ last.status = "ok"
  /\ db.status = "cancelled"
  /\ db.tutor = "t1"
  /\ isAlreadyEnrolled(db, "t1")

\* C30: when Delete has removed the record after an Update, Join or Leave
\* loaded it and before that request writes, the request's write step answers
\* NotFoundError (when its payload or roster rule would otherwise pass), never
\* an error with status 500, and stores nothing; and a record that Delete has
\* removed is never stored again.
C30_DeleteRace ==
  [][/\ \A r \in Slots :
          (StepOf(r) /\ req[r].op \in {"update", "join", "leave"}
             /\ req[r].pc \in {"write", "save"} /\ ~db.present)
          => LET d == req[r].doc
                 passes ==
                   CASE req[r].op = "update" -> updateValidators(req[r].payload)
                     [] req[r].op = "join" ->
                          ~isFull(d) /\ ~isAlreadyEnrolled(d, req[r].user)
                     [] OTHER -> participantIndex(d, req[r].user) # 0
             IN /\ statusCode(last'.status) # 500
                /\ passes => last'.status = "NotFoundError"
     /\ (~db.present /\ left < MaxJoinLeaveOps) => ~db'.present]_vars

\* an Update that found the session was answered with TypeError after a
\* Delete had removed the record
C30_Witness ==
  /\ last.op = "update"
  /\ last.status = "TypeError"
  /\ ~db.present

====
